---- MODULE Spec2Model ----
(***************************************************************************)
(* Model of the stox order entity: the Order type, the string parsers,     *)
(* the validators and the constructor NewOrder, with main as its caller.   *)
(*                                                                         *)
(* A Go string is a sequence of one-character strings, so that ToLower and *)
(* TrimSpace are computed character by character.  A nil pointer or a nil  *)
(* error is the empty sequence Nil; a non-nil one is a one-element         *)
(* sequence holding the value.                                             *)
(***************************************************************************)
EXTENDS Integers, Sequences, FiniteSets, TLC

\* ---------------------------------------------------------------- bounds
MaxQty == 2

MaxPrice == 2

MaxUUID == 2

MaxClock == 1

\* ------------------------------------------------------------ enumerations
BUY == 0

SELL == 1

MARKET == 0

LIMIT == 1

PENDING == 0

PARTIALLY_FILLED == 1

FILLED == 2

CANCELLED == 3

REJECTED == 4

Nil == <<>>

\* ------------------------------------------------------- strings.ToLower
UpperChars == <<"A","B","C","D","E","F","G","H","I","J","K","L","M",
                "N","O","P","Q","R","S","T","U","V","W","X","Y","Z">>

LowerChars == <<"a","b","c","d","e","f","g","h","i","j","k","l","m",
                "n","o","p","q","r","s","t","u","v","w","x","y","z">>

ToLowerChar(c) ==
    IF \E i \in 1..Len(UpperChars) : UpperChars[i] = c
    THEN LowerChars[CHOOSE i \in 1..Len(UpperChars) : UpperChars[i] = c]
    ELSE c

ToLower(s) == [i \in 1..Len(s) |-> ToLowerChar(s[i])]

\* ------------------------------------------------------ strings.TrimSpace
IsSpace(c) == c \in {" ", "\t", "\n", "\r"}

RECURSIVE TrimLeft(_)
TrimLeft(s) ==
    IF s # <<>> /\ IsSpace(Head(s)) THEN TrimLeft(Tail(s)) ELSE s

RECURSIVE TrimRight(_)
TrimRight(s) ==
    IF s # <<>> /\ IsSpace(s[Len(s)])
    THEN TrimRight(SubSeq(s, 1, Len(s) - 1))
    ELSE s

TrimSpace(s) == TrimRight(TrimLeft(s))

\* ------------------------------------------------------------- errors
\* fmt.Errorf("<msg>: %s", s)
Errorf(msg, s) == <<[msg |-> msg, arg |-> s]>>

\* errors.New("<msg>")
ErrorsNew(msg) == <<[msg |-> msg]>>

\* fmt.Errorf("failed to create order: %w", err)
WrapCreate(err) == <<[msg |-> "failed to create order", cause |-> err[1]]>>

\* ------------------------------------------------------------- parsers
parseStatus(s) ==
    LET w == ToLower(TrimSpace(s)) IN
    IF w = <<"p","e","n","d","i","n","g">>
        THEN [val |-> PENDING, err |-> Nil]
    ELSE IF w = <<"p","a","r","t","i","a","l","l","y","_","f","i","l","l","e","d">>
        THEN [val |-> PARTIALLY_FILLED, err |-> Nil]
    ELSE IF w = <<"f","i","l","l","e","d">>
        THEN [val |-> FILLED, err |-> Nil]
    ELSE IF w = <<"c","a","n","c","e","l","e","d">>
        THEN [val |-> CANCELLED, err |-> Nil]
    ELSE IF w = <<"r","e","j","e","c","t","e","d">>
        THEN [val |-> REJECTED, err |-> Nil]
    ELSE [val |-> 0, err |-> Errorf("invalid order status", s)]

parseSide_DefaultBuy(s) == [val |-> BUY, err |-> Nil]

parseSide(s) ==
    LET w == ToLower(TrimSpace(s)) IN
    IF w = <<"b","u","y">>
        THEN [val |-> BUY, err |-> Nil]
    ELSE IF w = <<"s","e","l","l">>
        THEN [val |-> SELL, err |-> Nil]
    ELSE [val |-> 0, err |-> Errorf("invalid order side", s)]

parseType(s) ==
    LET w == ToLower(TrimSpace(s)) IN
    IF w = <<"m","a","r","k","e","t">>
        THEN [val |-> MARKET, err |-> Nil]
    ELSE IF w = <<"l","i","m","i","t">>
        THEN [val |-> LIMIT, err |-> Nil]
    ELSE [val |-> 0, err |-> Errorf("invalid order type", s)]

\* ------------------------------------------------------------ validators
validateQuantity_NonNegative(q) == q >= 0

validateQuantity(q) == q > 0

validatePrice_AnyType(t, p) == IF p <= 0 THEN FALSE ELSE TRUE

validatePrice(t, p) == IF t = LIMIT /\ p <= 0 THEN FALSE ELSE TRUE

\* ------------------------------------------------------------ constructor
\* The struct literal NewOrder returns: id is uuid.New(), t1 and t2 are the
\* two readings of time.Now().
MakeOrder_ZeroRemaining(id, otype, symbol, side, status, qty, price, t1, t2) ==
    [OrderID |-> id, Type |-> otype, Symbol |-> symbol, Side |-> side,
     Status |-> status, Quantity |-> qty, RemainingQuantity |-> 0,
     Price |-> price, CreateAt |-> t1, UpdatedAt |-> t2]

MakeOrder(id, otype, symbol, side, status, qty, price, t1, t2) ==
    [OrderID |-> id, Type |-> otype, Symbol |-> symbol, Side |-> side,
     Status |-> status, Quantity |-> qty, RemainingQuantity |-> qty,
     Price |-> price, CreateAt |-> t1, UpdatedAt |-> t2]

NewOrder(symbol, orderType, orderSide, orderStatus, qty, price, id, t1, t2) ==
    LET st == parseStatus(orderStatus)
        sd == parseSide(orderSide)
        ty == parseType(orderType)
    IN  IF st.err # Nil THEN [order |-> Nil, err |-> WrapCreate(st.err)]
        ELSE IF sd.err # Nil THEN [order |-> Nil, err |-> WrapCreate(sd.err)]
        ELSE IF ty.err # Nil THEN [order |-> Nil, err |-> WrapCreate(ty.err)]
        ELSE IF ~validateQuantity(qty)
            THEN [order |-> Nil,
                  err |-> WrapCreate(ErrorsNew("qunatity must be greater than 0"))]
        ELSE IF ~validatePrice(ty.val, price)
            THEN [order |-> Nil,
                  err |-> WrapCreate(ErrorsNew("price must be greater than 0"))]
        ELSE [order |-> <<MakeOrder(id, ty.val, symbol, sd.val, st.val,
                                    qty, price, t1, t2)>>,
              err |-> Nil]

\* ---------------------------------------------------------------- inputs
Symbols == { <<>>, <<"A","A","P","L">> }

TypeStrings == { <<"L","I","M","I","T">>,
                 <<" ","m","a","r","k","e","t"," ">>,
                 <<"s","t","o","p">> }

SideStrings == { <<"B","U","Y">>,
                 <<"s","e","l","l","\n">>,
                 <<"h","o","l","d">> }

StatusStrings == { <<"p","e","n","d","i","n","g">>,
                   <<"P","a","r","t","i","a","l","l","y","_","F","i","l","l","e","d">>,
                   <<"f","i","l","l","e","d">>,
                   <<"c","a","n","c","e","l","e","d">>,
                   <<"c","a","n","c","e","l","l","e","d">>,
                   <<"\t","R","E","J","E","C","T","E","D">>,
                   <<>> }

Quantities == (-1)..MaxQty

Prices == (-1)..MaxPrice

\* uuid.New() draws an identifier; each time.Now() reads the wall clock.
UUIDs == 1..MaxUUID

Times == 0..MaxClock

Args(symbol, orderType, orderSide, orderStatus, qty, price) ==
    [symbol |-> symbol, orderType |-> orderType, orderSide |-> orderSide,
     orderStatus |-> orderStatus, qty |-> qty, price |-> price]

\* The arguments a caller other than main may pass.
Inputs ==
    { Args(symbol, orderType, orderSide, orderStatus, qty, price) :
        symbol \in Symbols, orderType \in TypeStrings,
        orderSide \in SideStrings, orderStatus \in StatusStrings,
        qty \in Quantities, price \in Prices }

\* The arguments main passes: NewOrder("AAPL", "LIMIT", "BUY", "pending", 10, 0).
MainArgs ==
    Args(<<"A","A","P","L">>, <<"L","I","M","I","T">>, <<"B","U","Y">>,
         <<"p","e","n","d","i","n","g">>, 10, 0)

\* ----------------------------------------------------------------- state
VARIABLES
    args,     \* the arguments of the NewOrder call
    pc,       \* "call" before NewOrder has run, "returned" after
    ret,      \* what NewOrder returned: [order, err]
    out       \* what main printed (Nil when nothing was printed)

vars == <<args, pc, ret, out>>

Init ==
    /\ args \in Inputs \cup {MainArgs}
    /\ pc = "call"
    /\ ret = [order |-> Nil, err |-> Nil]
    /\ out = Nil

\* One call of NewOrder on args.
Invoke ==
    /\ pc = "call"
    /\ \E id \in UUIDs, t1 \in Times, t2 \in Times :
              ret' = NewOrder(args.symbol, args.orderType, args.orderSide,
                              args.orderStatus, args.qty, args.price,
                              id, t1, t2)
    /\ pc' = "returned"
    /\ UNCHANGED args

\* A caller constructs an order from arbitrary arguments.
Call ==
    /\ args \in Inputs
    /\ Invoke
    /\ UNCHANGED out

\* main: calls NewOrder with its literals, then prints the error or the order.
Main ==
    /\ args = MainArgs
    /\ Invoke
    /\ out' = IF ret'.err # Nil THEN ret'.err ELSE ret'.order

Next == Call \/ Main

Spec == Init /\ [][Next]_vars

\* ------------------------------------------------------------- properties
Returned == pc = "returned"

Succeeded == Returned /\ ret.order # Nil /\ ret.err = Nil

Failed == Returned /\ ret.order = Nil /\ ret.err # Nil

\* C1: whatever the order type and the other arguments, NewOrder with
\* quantity <= 0 returns an error and no order; hence every order that
\* exists has Quantity > 0.
ThmC1 ==
    /\ (Returned /\ args.qty <= 0 => Failed)
    /\ (Returned /\ ret.order # Nil => ret.order[1].Quantity > 0)

\* A call whose only fault is its quantity has been rejected for it.
WitC1 ==
    /\ Returned
    /\ args.qty <= 0
    /\ parseStatus(args.orderStatus).err = Nil
    /\ parseSide(args.orderSide).err = Nil
    /\ parseType(args.orderType).err = Nil
    /\ args.price > 0
    /\ args.symbol # <<>>
    /\ Failed
    /\ ret.err[1].cause.msg = "qunatity must be greater than 0"

\* C2 as stated: a LIMIT order is created only if price > 0 (price <= 0 gives
\* an error and no order), and a MARKET order with valid side, type and
\* quantity is created for every price.
CexC2 ==
    Returned =>
        LET ty == parseType(args.orderType)
            sd == parseSide(args.orderSide)
        IN  /\ (ty.err = Nil /\ ty.val = LIMIT /\ ret.order # Nil
                    => args.price > 0)
            /\ (ty.err = Nil /\ ty.val = LIMIT /\ args.price <= 0 => Failed)
            /\ (ty.err = Nil /\ ty.val = MARKET /\ sd.err = Nil /\ args.qty > 0
                    => Succeeded)

\* C2 amended: a LIMIT order is created only if price > 0 (price <= 0 gives
\* an error and no order), and a MARKET order with valid status, side, type
\* and quantity is created for every price, zero and negative included.
ThmC2 ==
    Returned =>
        LET ty == parseType(args.orderType)
            sd == parseSide(args.orderSide)
            st == parseStatus(args.orderStatus)
        IN  /\ (ty.err = Nil /\ ty.val = LIMIT /\ ret.order # Nil
                    => args.price > 0)
            /\ (ty.err = Nil /\ ty.val = LIMIT /\ args.price <= 0 => Failed)
            /\ (ty.err = Nil /\ ty.val = MARKET /\ sd.err = Nil
                /\ st.err = Nil /\ args.qty > 0
                    => Succeeded /\ ret.order[1].Price = args.price)

\* A MARKET order has been created with a price that is not positive.
WitC2 ==
    /\ Succeeded
    /\ ret.order[1].Type = MARKET
    /\ args.price <= 0
    /\ ret.order[1].Price = args.price

\* C3: NewOrder called with an empty symbol is rejected and creates no order.
CexC3 == Returned /\ args.symbol = <<>> => Failed

\* C4: every order a successful NewOrder returns has status PENDING,
\* whatever the arguments.
CexC4 == Succeeded => ret.order[1].Status = PENDING

\* C5: for every order that exists, remaining_quantity = 0 exactly when the
\* status is FILLED.
CexC5 ==
    Returned /\ ret.order # Nil =>
        (ret.order[1].RemainingQuantity = 0 <=> ret.order[1].Status = FILLED)

\* C6: every order has 0 <= remaining_quantity <= quantity, and right after a
\* successful NewOrder its remaining_quantity equals its quantity, the
\* quantity asked for.
ThmC6 ==
    Returned /\ ret.order # Nil =>
        LET o == ret.order[1]
        IN  /\ 0 <= o.RemainingQuantity
            /\ o.RemainingQuantity <= o.Quantity
            /\ o.RemainingQuantity = o.Quantity
            /\ o.Quantity = args.qty

\* An order for more than one unit has been created with all of it remaining.
WitC6 ==
    /\ Succeeded
    /\ ret.order[1].Quantity > 1
    /\ ret.order[1].RemainingQuantity = ret.order[1].Quantity

\* C11: NewOrder returns exactly one of an order and an error.  If the
\* status, side or type string, trimmed and lower-cased, is outside its fixed
\* vocabulary, or the quantity is not positive, or the order is LIMIT with a
\* price that is not positive, it returns no order and a non-nil error, and a
\* caller other than main sees nothing printed; otherwise it returns an order
\* and a nil error.
ThmC11 ==
    Returned =>
        LET word(s) == ToLower(TrimSpace(s))
            statusOK == word(args.orderStatus) \in
                { <<"p","e","n","d","i","n","g">>,
                  <<"p","a","r","t","i","a","l","l","y","_","f","i","l","l","e","d">>,
                  <<"f","i","l","l","e","d">>,
                  <<"c","a","n","c","e","l","e","d">>,
                  <<"r","e","j","e","c","t","e","d">> }
            sideOK == word(args.orderSide) \in
                { <<"b","u","y">>, <<"s","e","l","l">> }
            typeOK == word(args.orderType) \in
                { <<"m","a","r","k","e","t">>, <<"l","i","m","i","t">> }
            priceOK == ~(word(args.orderType) = <<"l","i","m","i","t">>
                         /\ args.price <= 0)
            allOK == statusOK /\ sideOK /\ typeOK /\ args.qty > 0 /\ priceOK
        IN  /\ (ret.order = Nil) # (ret.err = Nil)
            /\ (~allOK => Failed /\ (args \in Inputs => out = Nil))
            /\ (allOK => Succeeded)

\* A call whose only fault is an unknown side string has been rejected for it.
WitC11 ==
    /\ Failed
    /\ parseStatus(args.orderStatus).err = Nil
    /\ parseType(args.orderType).err = Nil
    /\ args.qty > 0
    /\ args.price > 0
    /\ ret.err[1].cause.msg = "invalid order side"

====
